---- MODULE Spec2Model ----
(***************************************************************************)
(* Model of the integration-test harness of cloud-hypervisor's             *)
(* src/main.rs: one test scenario (Guest::new, the spawned hypervisor and  *)
(* side-car processes, the ssh_command retry loop, the shutdown sequence   *)
(* and the drop of the scenario's locals).                                 *)
(***************************************************************************)
EXTENDS Integers, Sequences, FiniteSets, TLC

\* ------------------------------------------------------------------ bounds

\* Probes modelled per scenario before the "sudo reboot" probe.
MaxProbes == 3

\* ------------------------------------------------------- program constants

\* main.rs:349  if counter >= 6 { panic!(...) }
MaxAttempts == 6
\* main.rs:354  thread::sleep(Duration::new(10 * counter, 0))
BackoffUnit == 10

\* ------------------------------------------------------------------- tests

Tests == {"test_simple_launch", "test_virtio_fs", "test_virtio_pmem",
          "test_boot_from_virtio_pmem", "test_serial_file"}

\* Tests that end with child.kill() before child.wait().
KillTests == {"test_simple_launch", "test_serial_file"}

\* Number of ssh probes a test runs before its "sudo reboot" probe.
SourceProbes(t) ==
    CASE t = "test_simple_launch"         -> 5
      [] t = "test_virtio_fs"             -> 4
      [] t = "test_virtio_pmem"           -> 3
      [] t = "test_boot_from_virtio_pmem" -> 2
      [] t = "test_serial_file"           -> 1

NumProbes(t) == IF SourceProbes(t) < MaxProbes THEN SourceProbes(t) ELSE MaxProbes

\* What the test does with the output of its i-th probe:
\*   "parse"   .trim().parse().unwrap() or a slice: panics on unusable output
\*   "compare" compared as a string by aver_eq!/aver_ne!
\*   "unused"  the output is dropped (test_virtio_pmem's write to /dev/pmem0),
\*             then the backing file is read on the host with unwrap()
ProbeUse(t, i) ==
    CASE t = "test_virtio_fs"                -> "compare"
      [] t = "test_virtio_pmem" /\ i = 1     -> "compare"
      [] t = "test_virtio_pmem" /\ i = 2     -> "parse"
      [] t = "test_virtio_pmem" /\ i >= 3    -> "unused"
      [] t = "test_simple_launch" /\ i = 5   -> "compare"
      [] OTHER                               -> "parse"

\* ------------------------------------------------------------------- paths

\* A path is a sequence of components; an absolute path starts with "/".
IsAbsolute(p) == Len(p) > 0 /\ p[1] = "/"

\* std::path::Path::join: an absolute argument replaces the base.
PathJoin(base, p) == IF IsAbsolute(p) THEN p ELSE base \o p

\* Path::starts_with on whole components.
StartsWith(p, base) ==
    Len(base) <= Len(p) /\ SubSeq(p, 1, Len(base)) = base

\* TempDir::new("ch"): a fresh directory under the system temp directory.
Root == <<"/", "tmp", "ch.XXXXXX">>

cloudinit_file_path == PathJoin(Root, <<"cloudinit">>)
cloud_init_directory == PathJoin(PathJoin(Root, <<"cloud-init">>), <<"openstack">>)
meta_data_path == PathJoin(PathJoin(cloud_init_directory, <<"latest">>), <<"meta_data.json">>)
user_data_path == PathJoin(PathJoin(cloud_init_directory, <<"latest">>), <<"user_data">>)
osdisk_path == PathJoin(Root, <<"osdisk.img">>)
osdisk_raw_path == PathJoin(Root, <<"osdisk_raw.img">>)
virtiofsd_socket_path_abs == PathJoin(Root, <<"/", "tmp", "virtiofs.sock">>)
virtiofsd_socket_path == PathJoin(Root, <<"virtiofs.sock">>)
pmem_backend_path == PathJoin(Root, <<"/", "tmp", "pmem-file">>)
serial_path == PathJoin(Root, <<"/", "tmp", "serial-output">>)

\* fs::remove_dir_all(root) as run by TempDir's drop.
RemoveDirAll(fs, root) == {f \in fs : ~StartsWith(f, root)}

\* ------------------------------------------------------------------- state

Handles == {"child", "daemon_child"}
Kinds == {"Connection", "Authentication", "Command"}

\* What a command can print; <<>> is no output at all.
FullOutputs == {<<"expected">>, <<"unexpected">>}
Outputs == FullOutputs \cup {<<>>}

VARIABLES
    test,           \* the scenario being run
    pc,             \* position of the scenario
    probe,          \* index of the current probe (NumProbes+1 is the reboot)
    failed,         \* the test block has recorded a failed aver!
    outcome,        \* "running", "passed", "failed" or "panic"
    tmp_dir,        \* Guest.tmp_dir: "none", "live" or "removed"
    files,          \* files the scenario created that still exist
    disks,          \* Guest.disks
    proc,           \* state of each spawned process
    killed,         \* handles on which kill() was called
    spc,            \* position inside ssh_command
    counter,        \* ssh_command's counter
    s,              \* ssh_command's output buffer
    e,              \* kind of the latest failed attempt
    first_e,        \* kind of the first failed attempt of the call
    connected,      \* some TcpStream::connect of the call succeeded
    authenticated,  \* sess.authenticated() of the current attempt's session
    ignored,        \* a read/close/wait_close result was an error
    attempts,       \* attempts started in the call
    sleeps,         \* backoff sleeps of the call, in order
    reported,       \* what the call's panic message reports
    tcp,            \* the attempt that opened the TcpStream in use (0: none)
    sess,           \* the attempt that created the Session in use (0: none)
    stages,         \* the stages the scenario has completed, in order
    tool_failed,    \* mkdosfs or mcopy did not start or reported failure
    earlier_failures, \* an earlier ssh_command call absorbed a failed attempt
    template,       \* content of the user_data template file
    host_ip,        \* Guest.host_ip
    guest_ip,       \* Guest.guest_ip
    guest_mac,      \* Guest.guest_mac
    user_data_string, \* prepare_cloudinit's user_data_string
    rpc,            \* position inside prepare_cloudinit's rendering
    args,           \* options given on the hypervisor's command line
    mpc,            \* position inside main
    vm_config,      \* result of VmConfig::parse: "none", "ok" or "err"
    boot,           \* vmm::boot_kernel: "not_called", "ok" or "err"
    stdout,         \* what main printed on standard output, in order
    stderr,         \* what main printed on standard error, in order
    exit_code       \* the process's exit status (-1 while it runs)

scenVars == <<test, pc, probe, failed, outcome>>
fsVars == <<tmp_dir, files, disks>>
procVars == <<proc, killed>>
sshVars == <<spc, counter, s, e, first_e, connected, authenticated, ignored,
             attempts, sleeps, reported, tcp, sess>>
scenarioVars == <<scenVars, fsVars, procVars, sshVars, stages, tool_failed,
                  earlier_failures>>
renderVars == <<template, host_ip, guest_ip, guest_mac, user_data_string, rpc>>
mainVars == <<args, mpc, vm_config, boot, stdout, stderr, exit_code>>
vars == <<scenarioVars, renderVars, mainVars>>

\* The substrings prepare_cloudinit replaces, main.rs:252-254.  A string is a
\* sequence of symbols: "N" stands for "192.168.2.", "M" for
\* "12:34:56:78:90:ab", "Q" for another MAC address, "x" for any other text.
HostToken == <<"N", "1">>
GuestToken == <<"N", "2">>
MacToken == <<"M">>

\* main.rs:213-215  the addresses Guest::new gives every guest
RenderIdle ==
    /\ template = <<>>
    /\ host_ip = <<"N", "1">>
    /\ guest_ip = <<"N", "2">>
    /\ guest_mac = <<"M">>
    /\ user_data_string = <<>>
    /\ rpc = "idle"

\* No hypervisor process is being followed through main.
MainIdle ==
    /\ args = {}
    /\ mpc = "idle"
    /\ vm_config = "none"
    /\ boot = "not_called"
    /\ stdout = <<>>
    /\ stderr = <<>>
    /\ exit_code = -1

\* The scenario's variables before its first statement, at position p.
Scenario(p) ==
    /\ pc = p
    /\ probe = 1
    /\ failed = FALSE
    /\ outcome = "running"
    /\ tmp_dir = "none"
    /\ files = {}
    /\ disks = <<>>
    /\ proc = [h \in Handles |-> "none"]
    /\ killed = {}
    /\ spc = "idle"
    /\ counter = 0
    /\ s = <<>>
    /\ e = "none"
    /\ first_e = "none"
    /\ connected = FALSE
    /\ authenticated = FALSE
    /\ ignored = FALSE
    /\ attempts = 0
    /\ sleeps = <<>>
    /\ reported = "none"
    /\ tcp = 0
    /\ sess = 0
    /\ stages = <<>>
    /\ tool_failed = FALSE
    /\ earlier_failures = FALSE

\* No scenario is running.
ScenarioIdle == test = "test_simple_launch" /\ Scenario("idle")

Init ==
    /\ test \in Tests
    /\ Scenario("Guest_new")
    /\ RenderIdle
    /\ MainIdle

\* A panic of the test thread: the stack unwinds to the end of the scenario.
Panic ==
    /\ pc' = "unwind"
    /\ outcome' = "panic"
    /\ UNCHANGED <<test, probe, failed>>

\* ------------------------------------------------------------- Guest::new

\* main.rs:207  TempDir::new("ch").unwrap()
TempDirNew ==
    /\ pc = "Guest_new"
    /\ \E ok \in BOOLEAN :
         IF ok
         THEN /\ tmp_dir' = "live"
              /\ pc' = "prepare_cloudinit"
              /\ UNCHANGED <<test, probe, failed, outcome>>
         ELSE /\ Panic
              /\ UNCHANGED tmp_dir
    /\ UNCHANGED <<files, disks, procVars, sshVars>>
    /\ UNCHANGED <<stages, tool_failed, renderVars, mainVars, earlier_failures>>

\* main.rs:224-259  directory, meta_data.json and rendered user_data
PrepareCloudinit ==
    /\ pc = "prepare_cloudinit"
    /\ \E r \in {"ok", "mkdir_err", "copy_err", "write_err"} :
         /\ files' = CASE r = "ok" -> files \cup {meta_data_path, user_data_path}
                       [] r = "write_err" -> files \cup {meta_data_path}
                       [] OTHER -> files
         /\ IF r = "ok"
            THEN /\ pc' = "mkdosfs"
                 /\ UNCHANGED <<test, probe, failed, outcome>>
            ELSE Panic
    /\ UNCHANGED <<tmp_dir, disks, procVars, sshVars>>
    /\ UNCHANGED <<stages, tool_failed, renderVars, mainVars, earlier_failures>>

\* main.rs:261-266  mkdosfs ... .output().expect(..): only a tool that cannot
\* be started panics; a tool that runs and reports failure returns Ok.
Mkdosfs ==
    /\ pc = "mkdosfs"
    /\ \E r \in {"ok", "failed", "not_started"} :
         /\ files' = IF r = "ok" THEN files \cup {cloudinit_file_path} ELSE files
         /\ tool_failed' = (r # "ok")
         /\ IF r = "not_started"
            THEN Panic
            ELSE /\ pc' = "mcopy"
                 /\ UNCHANGED <<test, probe, failed, outcome>>
    /\ UNCHANGED <<tmp_dir, disks, procVars, sshVars>>
    /\ UNCHANGED <<stages, renderVars, mainVars, earlier_failures>>

\* main.rs:268-275  mcopy ... .output().expect(..)
Mcopy ==
    /\ pc = "mcopy"
    /\ \E r \in {"ok", "failed", "not_started"} :
         /\ tool_failed' = (tool_failed \/ r # "ok")
         /\ IF r = "not_started"
            THEN Panic
            ELSE /\ pc' = "copy_disks"
                 /\ UNCHANGED <<test, probe, failed, outcome>>
    /\ UNCHANGED <<fsVars, procVars, sshVars>>
    /\ UNCHANGED <<stages, renderVars, mainVars, earlier_failures>>

\* Where a test goes once Guest::new has returned.
AfterGuestNew(t) ==
    CASE t = "test_virtio_fs"   -> "prepare_virtiofsd"
      [] t = "test_virtio_pmem" -> "pmem_file"
      [] OTHER                  -> "spawn"

\* main.rs:297-305  the two disk copies, then self.disks = vec![...]
DiskListSwapped(os, ci, raw) == <<os, raw, ci>>

\* main.rs:302  let disks = vec![osdisk_path, cloudinit_path, osdisk_raw_path]
DiskList(os, ci, raw) == <<os, ci, raw>>

PrepareFiles ==
    /\ pc = "copy_disks"
    /\ \E r \in {"ok", "copy_err", "copy_raw_err"} :
         /\ files' = CASE r = "ok" -> files \cup {osdisk_path, osdisk_raw_path}
                       [] r = "copy_raw_err" -> files \cup {osdisk_path}
                       [] OTHER -> files
         /\ IF r = "ok"
            THEN /\ disks' = DiskList(osdisk_path, cloudinit_file_path,
                                       osdisk_raw_path)
                 /\ pc' = AfterGuestNew(test)
                 /\ UNCHANGED <<test, probe, failed, outcome>>
            ELSE /\ Panic
                 /\ UNCHANGED disks
    /\ UNCHANGED <<tmp_dir, procVars, sshVars>>
    /\ UNCHANGED <<stages, tool_failed, renderVars, mainVars, earlier_failures>>

\* ------------------------------------------------------------- processes

\* main.rs:176-203  prepare_virtiofsd: Command::new(virtiofsd)...spawn().unwrap()
PrepareVirtiofsd ==
    /\ pc = "prepare_virtiofsd"
    /\ \E ok \in BOOLEAN :
         IF ok
         THEN /\ proc' = [proc EXCEPT !["daemon_child"] = "running"]
              /\ pc' = "spawn"
              /\ UNCHANGED <<test, probe, failed, outcome>>
         ELSE /\ Panic
              /\ UNCHANGED proc
    /\ UNCHANGED <<killed, fsVars, sshVars>>
    /\ stages' = IF pc' = "unwind" THEN stages ELSE Append(stages, "launch_sidecar")
    /\ UNCHANGED <<tool_failed, renderVars, mainVars, earlier_failures>>

\* main.rs:701-714  the pmem backing file: open(create).unwrap(), write_all,
\* set_len
CreatePmemFile ==
    /\ pc = "pmem_file"
    /\ \E r \in {"ok", "open_err", "write_err"} :
         /\ files' = IF r = "open_err" THEN files ELSE files \cup {pmem_backend_path}
         /\ IF r = "ok"
            THEN /\ pc' = "spawn"
                 /\ UNCHANGED <<test, probe, failed, outcome>>
            ELSE Panic
    /\ UNCHANGED <<tmp_dir, disks, procVars, sshVars>>
    /\ UNCHANGED <<stages, tool_failed, renderVars, mainVars, earlier_failures>>

\* main.rs:399-406  Command::new("target/debug/cloud-hypervisor")...spawn().unwrap()
Spawn ==
    /\ pc = "spawn"
    /\ \E ok \in BOOLEAN :
         IF ok
         THEN /\ proc' = [proc EXCEPT !["child"] = "running"]
              /\ pc' = "settle"
              /\ UNCHANGED <<test, probe, failed, outcome>>
         ELSE /\ Panic
              /\ UNCHANGED proc
    /\ UNCHANGED <<killed, fsVars, sshVars>>
    /\ stages' = IF pc' = "unwind" THEN stages ELSE Append(stages, "launch")
    /\ UNCHANGED <<tool_failed, renderVars, mainVars, earlier_failures>>

\* main.rs:408  thread::sleep(Duration::new(20, 0))
Settle ==
    /\ pc = "settle"
    /\ pc' = "probe"
    /\ UNCHANGED <<test, probe, failed, outcome, fsVars, procVars, sshVars>>
    /\ stages' = IF pc' = "unwind" THEN stages ELSE Append(stages, "settle")
    /\ UNCHANGED <<tool_failed, renderVars, mainVars, earlier_failures>>

\* A spawned process exits on its own (guest reboot, boot failure, crash).
ProcExits(h) ==
    /\ proc[h] = "running"
    /\ proc' = [proc EXCEPT ![h] = "zombie"]
    /\ UNCHANGED <<killed, scenVars, fsVars, sshVars>>
    /\ UNCHANGED <<stages, tool_failed, renderVars, mainVars, earlier_failures>>

\* main.rs:188-199  virtiofsd creates the socket it was given, once it is up.
VirtiofsdListen ==
    /\ proc["daemon_child"] = "running"
    /\ tmp_dir = "live"
    /\ virtiofsd_socket_path \notin files
    /\ files' = files \cup {virtiofsd_socket_path}
    /\ UNCHANGED <<tmp_dir, disks, scenVars, procVars, sshVars>>
    /\ UNCHANGED <<stages, tool_failed, renderVars, mainVars, earlier_failures>>

\* main.rs:910-913  the hypervisor creates the file of --serial file=<path>.
SerialCreate ==
    /\ test = "test_serial_file"
    /\ proc["child"] = "running"
    /\ serial_path \notin files
    /\ files' = files \cup {serial_path}
    /\ UNCHANGED <<tmp_dir, disks, scenVars, procVars, sshVars>>
    /\ UNCHANGED <<stages, tool_failed, renderVars, mainVars, earlier_failures>>

\* ------------------------------------------------------------ ssh_command

\* Mutant: a handshake failure classified as an authentication failure.
ClassifyHandshakeAsAuthentication(step) ==
    CASE step = "connect"         -> "Connection"
      [] step = "handshake"       -> "Authentication"
      [] step = "userauth"        -> "Authentication"
      [] step = "channel_session" -> "Command"
      [] step = "exec"            -> "Command"

\* Mutant: a failed connect classified as a Command error.
ClassifyConnectAsCommand(step) ==
    CASE step = "connect"         -> "Command"
      [] step = "handshake"       -> "Connection"
      [] step = "userauth"        -> "Authentication"
      [] step = "channel_session" -> "Command"
      [] step = "exec"            -> "Command"

\* main.rs:328-337  the map_err of each step of an attempt
Classify(step) ==
    CASE step = "connect"         -> "Connection"
      [] step = "handshake"       -> "Connection"
      [] step = "userauth"        -> "Authentication"
      [] step = "channel_session" -> "Command"
      [] step = "exec"            -> "Command"

\* Mutant: the budget test off by one (counter > 6).
ExhaustedOffByOne(c) == c > MaxAttempts

\* main.rs:349  if counter >= 6
Exhausted(c) == c >= MaxAttempts

\* Mutant: exponential instead of linear backoff.
BackoffDoubling(c) == BackoffUnit * 2 ^ (c - 1)

\* main.rs:354  Duration::new(10 * counter, 0)
Backoff(c) == BackoffUnit * c

\* Mutant: the panic reports the first error instead of the last.
ReportedFirstKind(first, last) == first

\* main.rs:350  panic!("... Last error: {:?}", e)
ReportedKind(first, last) == last

\* Mutant: the exhausted call's panic is caught and the test carries on.
FailSwallowed(step) ==
    /\ counter' = counter + 1
    /\ e' = Classify(step)
    /\ tcp' = 0
    /\ sess' = 0
    /\ first_e' = IF counter = 0 THEN Classify(step) ELSE first_e
    /\ IF Exhausted(counter + 1)
       THEN /\ spc' = "panicked"
            /\ reported' = ReportedKind(first_e', e')
            /\ pc' = "returned"
            /\ UNCHANGED <<test, probe, failed, outcome>>
       ELSE /\ spc' = "sleep"
            /\ UNCHANGED <<reported, scenVars>>

\* main.rs:347-353  Err(e) => { counter += 1; if counter >= 6 { panic!(..) } }
Fail(step) ==
    /\ counter' = counter + 1
    /\ e' = Classify(step)
    /\ tcp' = 0
    /\ sess' = 0
    /\ first_e' = IF counter = 0 THEN Classify(step) ELSE first_e
    /\ IF Exhausted(counter + 1)
       THEN /\ spc' = "panicked"
            /\ reported' = ReportedKind(first_e', e')
            /\ Panic
       ELSE /\ spc' = "sleep"
            /\ UNCHANGED <<reported, scenVars>>

\* Mutant: the counter is not reset when a call starts.
SshCommandKeepsCounter ==
    /\ pc = "probe"
    /\ pc' = "ssh_command"
    /\ spc' = "connect"
    /\ counter' = counter
    /\ s' = <<>>
    /\ e' = "none"
    /\ first_e' = "none"
    /\ connected' = FALSE
    /\ authenticated' = FALSE
    /\ ignored' = FALSE
    /\ attempts' = 1
    /\ sleeps' = <<>>
    /\ reported' = "none"
    /\ tcp' = 0
    /\ sess' = 0
    /\ UNCHANGED <<test, probe, failed, outcome, fsVars, procVars>>
    /\ UNCHANGED <<stages, tool_failed, renderVars, mainVars>>
    /\ earlier_failures' = (earlier_failures \/ counter > 0)

\* main.rs:315-325  a probe calls ssh_command: s and counter start afresh.
SshCommand ==
    /\ pc = "probe"
    /\ pc' = "ssh_command"
    /\ spc' = "connect"
    /\ counter' = 0
    /\ s' = <<>>
    /\ e' = "none"
    /\ first_e' = "none"
    /\ connected' = FALSE
    /\ authenticated' = FALSE
    /\ ignored' = FALSE
    /\ attempts' = 1
    /\ sleeps' = <<>>
    /\ reported' = "none"
    /\ tcp' = 0
    /\ sess' = 0
    /\ UNCHANGED <<test, probe, failed, outcome, fsVars, procVars>>
    /\ UNCHANGED <<stages, tool_failed, renderVars, mainVars>>
    /\ earlier_failures' = (earlier_failures \/ counter > 0)

\* main.rs:327-328  TcpStream::connect(..).map_err(|_| Error::Connection)?
Connect ==
    /\ spc = "connect"
    /\ \E ok \in BOOLEAN :
         IF ok
         THEN /\ spc' = "handshake"
              /\ connected' = TRUE
              /\ UNCHANGED <<counter, e, first_e, reported, scenVars, sess>>
              /\ tcp' = attempts
         ELSE /\ Fail("connect")
              /\ UNCHANGED connected
    /\ UNCHANGED <<s, authenticated, ignored, attempts, sleeps, fsVars, procVars>>
    /\ UNCHANGED <<stages, tool_failed, renderVars, mainVars, earlier_failures>>

\* main.rs:329-330  Session::new(); sess.handshake(&tcp)
Handshake ==
    /\ spc = "handshake"
    /\ \E ok \in BOOLEAN :
         IF ok
         THEN /\ spc' = "userauth"
              /\ UNCHANGED <<counter, e, first_e, reported, scenVars, tcp>>
              /\ sess' = attempts
         ELSE Fail("handshake")
    /\ UNCHANGED <<s, connected, authenticated, ignored, attempts, sleeps,
                   fsVars, procVars>>
    /\ UNCHANGED <<stages, tool_failed, renderVars, mainVars, earlier_failures>>

\* main.rs:332-333  sess.userauth_password("admin", "cloud123")
Userauth ==
    /\ spc = "userauth"
    /\ \E ok \in BOOLEAN :
         IF ok
         THEN /\ spc' = "assert"
              /\ authenticated' \in BOOLEAN
              /\ UNCHANGED <<counter, e, first_e, reported, scenVars, tcp, sess>>
         ELSE /\ Fail("userauth")
              /\ UNCHANGED authenticated
    /\ UNCHANGED <<s, connected, ignored, attempts, sleeps, fsVars, procVars>>
    /\ UNCHANGED <<stages, tool_failed, renderVars, mainVars, earlier_failures>>

\* Mutant: the assert is missing, the attempt goes on unverified.
AssertSkipped ==
    /\ spc = "assert"
    /\ spc' = "channel_session"
    /\ UNCHANGED <<reported, scenVars>>
    /\ UNCHANGED <<counter, s, e, first_e, connected, authenticated, ignored,
                   attempts, sleeps, fsVars, procVars>>
    /\ UNCHANGED <<stages, tool_failed, renderVars, mainVars, earlier_failures>>
    /\ UNCHANGED <<tcp, sess>>

\* main.rs:334  assert!(sess.authenticated()): a failed assert panics inside
\* the closure and leaves ssh_command without passing through the match.
AssertAuthenticated ==
    /\ spc = "assert"
    /\ IF authenticated
       THEN /\ spc' = "channel_session"
            /\ UNCHANGED <<reported, scenVars>>
       ELSE /\ spc' = "panicked"
            /\ reported' = "NotAuthenticated"
            /\ Panic
    /\ UNCHANGED <<counter, s, e, first_e, connected, authenticated, ignored,
                   attempts, sleeps, fsVars, procVars>>
    /\ UNCHANGED <<stages, tool_failed, renderVars, mainVars, earlier_failures>>
    /\ tcp' = IF authenticated THEN tcp ELSE 0
    /\ sess' = IF authenticated THEN sess ELSE 0

\* main.rs:336  sess.channel_session().map_err(|_| Error::Command)?
ChannelSession ==
    /\ spc = "channel_session"
    /\ \E ok \in BOOLEAN :
         IF ok
         THEN /\ spc' = "exec"
              /\ UNCHANGED <<counter, e, first_e, reported, scenVars, tcp, sess>>
         ELSE Fail("channel_session")
    /\ UNCHANGED <<s, connected, authenticated, ignored, attempts, sleeps,
                   fsVars, procVars>>
    /\ UNCHANGED <<stages, tool_failed, renderVars, mainVars, earlier_failures>>

\* main.rs:337  channel.exec(command).map_err(|_| Error::Command)?
Exec ==
    /\ spc = "exec"
    /\ \E ok \in BOOLEAN :
         IF ok
         THEN /\ spc' = "read_to_string"
              /\ UNCHANGED <<counter, e, first_e, reported, scenVars, tcp, sess>>
         ELSE Fail("exec")
    /\ UNCHANGED <<s, connected, authenticated, ignored, attempts, sleeps,
                   fsVars, procVars>>
    /\ UNCHANGED <<stages, tool_failed, renderVars, mainVars, earlier_failures>>

\* Mutant: a read error is propagated with ? as a Command error.
ReadToStringRetried ==
    /\ spc = "read_to_string"
    /\ \E ok \in BOOLEAN, data \in Outputs :
         /\ ok => data \in FullOutputs
         /\ s' = s \o data
         /\ ignored' = (ignored \/ ~ok)
         /\ IF ok
            THEN /\ spc' = "close"
                 /\ UNCHANGED <<counter, e, first_e, reported, scenVars, tcp, sess>>
            ELSE Fail("exec")
    /\ UNCHANGED <<connected, authenticated, attempts, sleeps, fsVars, procVars>>
    /\ UNCHANGED <<stages, tool_failed, renderVars, mainVars, earlier_failures>>

\* main.rs:341  let _ = channel.read_to_string(&mut s): what was read before
\* an error stays in s; the result is dropped.
ReadToString ==
    /\ spc = "read_to_string"
    /\ \E ok \in BOOLEAN, data \in Outputs :
         /\ ok => data \in FullOutputs
         /\ s' = s \o data
         /\ ignored' = (ignored \/ ~ok)
    /\ spc' = "close"
    /\ UNCHANGED <<counter, e, first_e, connected, authenticated, attempts,
                   sleeps, reported, scenVars, fsVars, procVars>>
    /\ UNCHANGED <<stages, tool_failed, renderVars, mainVars, earlier_failures>>
    /\ UNCHANGED <<tcp, sess>>

\* main.rs:342  let _ = channel.close()
Close ==
    /\ spc = "close"
    /\ \E ok \in BOOLEAN : ignored' = (ignored \/ ~ok)
    /\ spc' = "wait_close"
    /\ UNCHANGED <<counter, s, e, first_e, connected, authenticated, attempts,
                   sleeps, reported, scenVars, fsVars, procVars>>
    /\ UNCHANGED <<stages, tool_failed, renderVars, mainVars, earlier_failures>>
    /\ UNCHANGED <<tcp, sess>>

\* Mutant: an error of wait_close makes the call retry.
WaitCloseRetried ==
    /\ spc = "wait_close"
    /\ \E ok \in BOOLEAN :
         /\ ignored' = (ignored \/ ~ok)
         /\ IF ok
            THEN /\ spc' = "returned"
                 /\ pc' = "returned"
                 /\ tcp' = 0
                 /\ sess' = 0
                 /\ UNCHANGED <<counter, e, first_e, reported, test, probe,
                                failed, outcome>>
            ELSE Fail("exec")
    /\ UNCHANGED <<s, connected, authenticated, attempts, sleeps, fsVars,
                   procVars>>
    /\ UNCHANGED <<stages, tool_failed, renderVars, mainVars, earlier_failures>>

\* Mutant: the loop sleeps once more after the successful attempt.
WaitCloseSleeps ==
    /\ spc = "wait_close"
    /\ \E ok \in BOOLEAN : ignored' = (ignored \/ ~ok)
    /\ spc' = "returned"
    /\ pc' = "returned"
    /\ UNCHANGED <<counter, s, e, first_e, connected, authenticated, attempts,
                   reported, test, probe, failed, outcome, fsVars,
                   procVars>>
    /\ UNCHANGED <<stages, tool_failed, renderVars, mainVars, earlier_failures>>
    /\ tcp' = 0
    /\ sess' = 0
    /\ sleeps' = Append(sleeps, Backoff(counter))

\* main.rs:343-346,356  let _ = channel.wait_close(); Ok(()) => break; s
WaitClose ==
    /\ spc = "wait_close"
    /\ \E ok \in BOOLEAN : ignored' = (ignored \/ ~ok)
    /\ spc' = "returned"
    /\ pc' = "returned"
    /\ UNCHANGED <<counter, s, e, first_e, connected, authenticated, attempts,
                   sleeps, reported, test, probe, failed, outcome, fsVars,
                   procVars>>
    /\ UNCHANGED <<stages, tool_failed, renderVars, mainVars, earlier_failures>>
    /\ tcp' = 0
    /\ sess' = 0

\* Mutant: a retry resumes at the authentication of the failed attempt.
SleepResumes ==
    /\ spc = "sleep"
    /\ sleeps' = Append(sleeps, Backoff(counter))
    /\ spc' = "userauth"
    /\ attempts' = attempts + 1
    /\ authenticated' = FALSE
    /\ UNCHANGED <<counter, s, e, first_e, connected, ignored, reported,
                   scenVars, fsVars, procVars>>
    /\ UNCHANGED <<stages, tool_failed, renderVars, mainVars, earlier_failures>>
    /\ UNCHANGED <<tcp, sess>>

\* main.rs:354-355,325-326  thread::sleep(10 * counter), then the next attempt
\* with a new connection and a new session.
Sleep ==
    /\ spc = "sleep"
    /\ sleeps' = Append(sleeps, Backoff(counter))
    /\ spc' = "connect"
    /\ attempts' = attempts + 1
    /\ authenticated' = FALSE
    /\ UNCHANGED <<counter, s, e, first_e, connected, ignored, reported,
                   scenVars, fsVars, procVars>>
    /\ UNCHANGED <<stages, tool_failed, renderVars, mainVars, earlier_failures>>
    /\ UNCHANGED <<tcp, sess>>

\* --------------------------------------------------- the rest of a scenario

\* main.rs:410-414  aver_eq!(tb, guest.get_cpu_count(), 1) and the like: the
\* probe's output is parsed with unwrap() or compared; a failed aver! is
\* recorded in the test block and the scenario goes on.
AfterCheckKill(t, i) ==
    IF t \in KillTests /\ i = NumProbes(t) THEN "kill" ELSE "probe"

\* main.rs:411-416  the statement after the i-th probe's check is the next
\* ssh_command call: the following probe or, after the last one, "sudo reboot"
AfterCheck(t, i) == "probe"

Aver ==
    /\ pc = "returned"
    /\ probe <= NumProbes(test)
    /\ ProbeUse(test, probe) \in {"parse", "compare"}
    /\ IF ProbeUse(test, probe) = "parse" /\ s = <<>>
       THEN Panic
       ELSE /\ failed' = (failed \/ s # <<"expected">>)
            /\ probe' = probe + 1
            /\ pc' = AfterCheck(test, probe)
            /\ UNCHANGED <<test, outcome>>
    /\ UNCHANGED <<fsVars, procVars, sshVars>>
    /\ stages' = IF pc' = "unwind" THEN stages ELSE Append(stages, "probe")
    /\ UNCHANGED <<tool_failed, renderVars, mainVars, earlier_failures>>

\* main.rs:747-762  the output is dropped, then
\* read(pmem_backend_path).unwrap() and aver_eq! on the file's content
PmemHostRead ==
    /\ pc = "returned"
    /\ probe <= NumProbes(test)
    /\ ProbeUse(test, probe) = "unused"
    /\ \E r \in {"same", "differs", "read_err"} :
         IF r = "read_err" \/ pmem_backend_path \notin files
         THEN Panic
         ELSE /\ failed' = (failed \/ r = "differs")
              /\ probe' = probe + 1
              /\ pc' = AfterCheck(test, probe)
              /\ UNCHANGED <<test, outcome>>
    /\ UNCHANGED <<fsVars, procVars, sshVars>>
    /\ stages' = IF pc' = "unwind" THEN stages ELSE Append(stages, "probe")
    /\ UNCHANGED <<tool_failed, renderVars, mainVars, earlier_failures>>

\* main.rs:416,684  guest.ssh_command("sudo reboot") has returned; its output
\* is dropped.
Rebooted ==
    /\ pc = "returned"
    /\ probe = NumProbes(test) + 1
    /\ pc' = IF test \in KillTests THEN "settle_shutdown" ELSE "wait"
    /\ UNCHANGED <<test, probe, failed, outcome, fsVars, procVars, sshVars>>
    /\ stages' = Append(stages, "shutdown")
    /\ UNCHANGED <<tool_failed, renderVars, mainVars, earlier_failures>>

\* main.rs:417  thread::sleep(Duration::new(10, 0))
SettleShutdown ==
    /\ pc = "settle_shutdown"
    /\ pc' = IF test = "test_serial_file" THEN "serial_read" ELSE "kill"
    /\ UNCHANGED <<test, probe, failed, outcome, fsVars, procVars, sshVars>>
    /\ stages' = Append(stages, "settle")
    /\ UNCHANGED <<tool_failed, renderVars, mainVars, earlier_failures>>

\* main.rs:935-938  File::open(serial_path).unwrap(), read_to_string(..).unwrap(),
\* aver!(tb, buf.contains("cloud login:"))
SerialRead ==
    /\ pc = "serial_read"
    /\ \E r \in {"contains", "lacks", "read_err"} :
         IF r = "read_err" \/ serial_path \notin files
         THEN Panic
         ELSE /\ failed' = (failed \/ r = "lacks")
              /\ pc' = "kill"
              /\ UNCHANGED <<test, probe, outcome>>
    /\ UNCHANGED <<fsVars, procVars, sshVars>>
    /\ UNCHANGED <<stages, tool_failed, renderVars, mainVars, earlier_failures>>

\* std::process::Child::kill: SIGKILL to a process that has not been reaped;
\* an error for one that has. The result is dropped (let _ =).
KillProcGroup(p, h) ==
    [g \in DOMAIN p |-> IF p[g] = "running" THEN "zombie" ELSE p[g]]

KillProc(p, h) == IF p[h] = "running" THEN [p EXCEPT ![h] = "zombie"] ELSE p

\* std::process::Child::wait: blocks while the process runs, then reaps it.
CanReap(p, h) == p[h] # "running"
WaitProc(p, h) == IF p[h] = "zombie" THEN [p EXCEPT ![h] = "reaped"] ELSE p

\* main.rs:418-419  let _ = child.kill(); let _ = child.wait(): both results
\* are dropped, so neither call can raise
Terminate(p, h) == WaitProc(KillProc(p, h), h)

\* main.rs:418  let _ = child.kill()
Kill ==
    /\ pc = "kill"
    /\ proc' = KillProc(proc, "child")
    /\ killed' = killed \cup {"child"}
    /\ pc' = "wait"
    /\ UNCHANGED <<test, probe, failed, outcome, fsVars, sshVars>>
    /\ stages' = Append(stages, "kill")
    /\ UNCHANGED <<tool_failed, renderVars, mainVars, earlier_failures>>

\* main.rs:419,685  let _ = child.wait()
Wait ==
    /\ pc = "wait"
    /\ CanReap(proc, "child")
    /\ proc' = WaitProc(proc, "child")
    /\ pc' = IF test = "test_virtio_fs" THEN "daemon_wait" ELSE "end"
    /\ UNCHANGED <<killed, test, probe, failed, outcome, fsVars, sshVars>>
    /\ stages' = Append(stages, "reap")
    /\ UNCHANGED <<tool_failed, renderVars, mainVars, earlier_failures>>

\* main.rs:686  let _ = daemon_child.wait()
DaemonWait ==
    /\ pc = "daemon_wait"
    /\ CanReap(proc, "daemon_child")
    /\ proc' = WaitProc(proc, "daemon_child")
    /\ pc' = "end"
    /\ UNCHANGED <<killed, test, probe, failed, outcome, fsVars, sshVars>>
    /\ stages' = Append(stages, "reap")
    /\ UNCHANGED <<tool_failed, renderVars, mainVars, earlier_failures>>

\* What dropping the scenario's locals does to the processes: dropping a
\* std::process::Child neither kills nor reaps it.
DropChildren(p) == p

\* Mutant: the workspace directory is leaked.
DropTempDirLeak(d) == d

\* What dropping the Guest does to the workspace: TempDir's drop removes the
\* directory and everything under it.
DropTempDir(d) == IF d = "live" THEN "removed" ELSE d

\* main.rs:396-421  the end of the test block, reached by Ok(()) or by an
\* unwinding panic: the locals are dropped (child, daemon_child, guest), and
\* the block reports the recorded failures.
Drop ==
    /\ pc \in {"end", "unwind"}
    /\ proc' = DropChildren(proc)
    /\ tmp_dir' = DropTempDir(tmp_dir)
    /\ files' = IF tmp_dir' = "removed" THEN RemoveDirAll(files, Root) ELSE files
    /\ outcome' = CASE pc = "unwind" -> "panic"
                    [] failed        -> "failed"
                    [] OTHER         -> "passed"
    /\ pc' = "done"
    /\ UNCHANGED <<test, probe, failed, disks, killed, sshVars>>
    /\ stages' = Append(stages, "teardown")
    /\ UNCHANGED <<tool_failed, renderVars, mainVars, earlier_failures>>

\* ----------------------------------------------------------- specification

Next ==
    \/ TempDirNew
    \/ PrepareCloudinit
    \/ Mkdosfs
    \/ Mcopy
    \/ PrepareFiles
    \/ PrepareVirtiofsd
    \/ CreatePmemFile
    \/ Spawn
    \/ Settle
    \/ \E h \in Handles : ProcExits(h)
    \/ VirtiofsdListen
    \/ SerialCreate
    \/ SshCommand
    \/ Connect
    \/ Handshake
    \/ Userauth
    \/ AssertAuthenticated
    \/ ChannelSession
    \/ Exec
    \/ ReadToString
    \/ Close
    \/ WaitClose
    \/ Sleep
    \/ Aver
    \/ PmemHostRead
    \/ Rebooted
    \/ SettleShutdown
    \/ SerialRead
    \/ Kill
    \/ Wait
    \/ DaemonWait
    \/ Drop

Spec == Init /\ [][Next]_vars

TypeOK ==
    /\ test \in Tests
    /\ tmp_dir \in {"none", "live", "removed"}
    /\ proc \in [Handles -> {"none", "running", "zombie", "reaped"}]
    /\ killed \subseteq Handles
    /\ counter \in 0..MaxAttempts
    /\ s \in Outputs
    /\ e \in Kinds \cup {"none"}
    /\ outcome \in {"running", "passed", "failed", "panic"}

\* Every step of ssh_command returns: the blocking calls of an attempt and
\* the backoff sleep all complete.
SshStep ==
    \/ Connect
    \/ Handshake
    \/ Userauth
    \/ AssertAuthenticated
    \/ ChannelSession
    \/ Exec
    \/ ReadToString
    \/ Close
    \/ WaitClose
    \/ Sleep

FairSpec == Spec /\ WF_vars(SshStep)

\* Every statement of the test's thread: all of Next but what the spawned
\* processes do on their own.
TestStep ==
    \/ TempDirNew
    \/ PrepareCloudinit
    \/ Mkdosfs
    \/ Mcopy
    \/ PrepareFiles
    \/ PrepareVirtiofsd
    \/ CreatePmemFile
    \/ Spawn
    \/ Settle
    \/ SshCommand
    \/ SshStep
    \/ Aver
    \/ PmemHostRead
    \/ Rebooted
    \/ SettleShutdown
    \/ SerialRead
    \/ Kill
    \/ Wait
    \/ DaemonWait
    \/ Drop

\* The test's thread keeps running; a spawned process need not ever exit.
TermSpec == Spec /\ WF_vars(TestStep)

\* ------------------------------------------------- rendering the user_data

\* Templates and addresses the rendering is checked on.
MaxTemplateLen == 3
Alphabet == {"N", "1", "2", "M", "x"}
Templates == UNION {[1..n -> Alphabet] : n \in 0..MaxTemplateLen}
IpValues == {<<"N", "1">>, <<"N", "2">>, <<"N", "3">>}
MacValues == {<<"M">>, <<"Q">>}

\* str::replace: every non-overlapping occurrence of from, found left to
\* right, becomes to; what was substituted is not scanned again.
RECURSIVE Replace(_, _, _)
Replace(str, from, to) ==
    IF Len(str) < Len(from)
    THEN str
    ELSE IF SubSeq(str, 1, Len(from)) = from
         THEN to \o Replace(SubSeq(str, Len(from) + 1, Len(str)), from, to)
         ELSE <<str[1]>> \o Replace(Tail(str), from, to)

\* str::contains
Contains(str, pat) ==
    \E i \in 1..(Len(str) - Len(pat) + 1) :
        SubSeq(str, i, i + Len(pat) - 1) = pat

RenderInit ==
    /\ ScenarioIdle
    /\ MainIdle
    /\ template \in Templates
    /\ host_ip \in IpValues
    /\ guest_ip \in IpValues
    /\ guest_mac \in MacValues
    /\ user_data_string = <<>>
    /\ rpc = "read"

\* main.rs:245-250  the template file is read into user_data_string
ReadUserData ==
    /\ rpc = "read"
    /\ user_data_string' = template
    /\ rpc' = "replace_host"
    /\ UNCHANGED <<template, host_ip, guest_ip, guest_mac, scenarioVars, mainVars>>

\* main.rs:252  user_data_string.replace("192.168.2.1", &self.host_ip)
ReplaceHost ==
    /\ rpc = "replace_host"
    /\ user_data_string' = Replace(user_data_string, HostToken, host_ip)
    /\ rpc' = "replace_guest"
    /\ UNCHANGED <<template, host_ip, guest_ip, guest_mac, scenarioVars, mainVars>>

\* main.rs:253  user_data_string.replace("192.168.2.2", &self.guest_ip)
ReplaceGuest ==
    /\ rpc = "replace_guest"
    /\ user_data_string' = Replace(user_data_string, GuestToken, guest_ip)
    /\ rpc' = "replace_mac"
    /\ UNCHANGED <<template, host_ip, guest_ip, guest_mac, scenarioVars, mainVars>>

\* main.rs:254  user_data_string.replace("12:34:56:78:90:ab", &self.guest_mac)
ReplaceMac ==
    /\ rpc = "replace_mac"
    /\ user_data_string' = Replace(user_data_string, MacToken, guest_mac)
    /\ rpc' = "write"
    /\ UNCHANGED <<template, host_ip, guest_ip, guest_mac, scenarioVars, mainVars>>

\* main.rs:256-259  user_data_string is written out as the payload
WriteUserData ==
    /\ rpc = "write"
    /\ rpc' = "written"
    /\ UNCHANGED <<template, host_ip, guest_ip, guest_mac, user_data_string,
                   scenarioVars, mainVars>>

RenderNext ==
    \/ ReadUserData
    \/ ReplaceHost
    \/ ReplaceGuest
    \/ ReplaceMac
    \/ WriteUserData

RenderSpec == RenderInit /\ [][RenderNext]_vars

\* ------------------------------------------------- the hypervisor's main

\* main.rs:45-95  the options without a default value; the command lines
\* considered are those clap accepts, so get_matches returns.
Options == {"kernel", "cmdline", "disk", "net", "fs", "pmem"}

MainInit ==
    /\ ScenarioIdle
    /\ RenderIdle
    /\ args \in SUBSET Options
    /\ mpc = "get_matches"
    /\ vm_config = "none"
    /\ boot = "not_called"
    /\ stdout = <<>>
    /\ stderr = <<>>
    /\ exit_code = -1

\* main.rs:16-103  App::new(..)...get_matches() and the defaulted values
GetMatches ==
    /\ mpc = "get_matches"
    /\ mpc' = "kernel"
    /\ UNCHANGED <<args, vm_config, boot, stdout, stderr, exit_code,
                   scenarioVars, renderVars>>

\* main.rs:105-107  value_of("kernel").expect("Missing argument: kernel"):
\* without the option main panics; the panic message goes to standard error
\* and the process exits with status 101.
GetKernel ==
    /\ mpc = "kernel"
    /\ IF "kernel" \in args
       THEN /\ mpc' = "parse"
            /\ UNCHANGED <<stderr, exit_code>>
       ELSE /\ mpc' = "exited"
            /\ stderr' = Append(stderr, "Missing argument: kernel")
            /\ exit_code' = 101
    /\ UNCHANGED <<args, vm_config, boot, stdout, scenarioVars, renderVars>>

\* main.rs:108-132  VmConfig::parse; on Err println! and process::exit(1)
ParseConfig ==
    /\ mpc = "parse"
    /\ \E ok \in BOOLEAN :
         IF ok
         THEN /\ vm_config' = "ok"
              /\ mpc' = "banner"
              /\ UNCHANGED <<stdout, exit_code>>
         ELSE /\ vm_config' = "err"
              /\ mpc' = "exited"
              /\ stdout' = Append(stdout, "Failed parsing parameters")
              /\ exit_code' = 1
    /\ UNCHANGED <<args, boot, stderr, scenarioVars, renderVars>>

\* main.rs:134-142  println!("Cloud Hypervisor Guest ...")
PrintBanner ==
    /\ mpc = "banner"
    /\ stdout' = Append(stdout, "Cloud Hypervisor Guest")
    /\ mpc' = "boot_kernel"
    /\ UNCHANGED <<args, vm_config, boot, stderr, exit_code, scenarioVars,
                   renderVars>>

\* main.rs:144-148  vmm::boot_kernel(vm_config); on Err println! and
\* process::exit(1), otherwise main returns
BootKernel ==
    /\ mpc = "boot_kernel"
    /\ mpc' = "exited"
    /\ \E ok \in BOOLEAN :
         IF ok
         THEN /\ boot' = "ok"
              /\ exit_code' = 0
              /\ UNCHANGED stdout
         ELSE /\ boot' = "err"
              /\ stdout' = Append(stdout, "Guest boot failed")
              /\ exit_code' = 1
    /\ UNCHANGED <<args, vm_config, stderr, scenarioVars, renderVars>>

MainNext ==
    \/ GetMatches
    \/ GetKernel
    \/ ParseConfig
    \/ PrintBanner
    \/ BootKernel

MainSpec == MainInit /\ [][MainNext]_vars

\* ------------------------------------------------------------------ claims

RECURSIVE SumSeq(_)
SumSeq(q) == IF q = <<>> THEN 0 ELSE q[1] + SumSeq(Tail(q))

\* Positions of ssh_command inside an attempt, and after a successful exec.
InAttempt == {"connect", "handshake", "userauth", "assert", "channel_session",
              "exec", "read_to_string", "close", "wait_close"}
PostExec == {"read_to_string", "close", "wait_close"}

\* The call panicked because its retry budget was exhausted.
BudgetExhausted == spc = "panicked" /\ reported \in Kinds

\* C1: within one ssh_command call the n-th failed attempt (n in 1..5) is
\* followed by a sleep of exactly 10*n seconds before the next attempt
\* starts, and the 6th failed attempt panics with no sleep and no further
\* attempt.
C1_LinearBackoff ==
    /\ \A n \in 1..Len(sleeps) : sleeps[n] = 10 * n
    /\ spc \in InAttempt \cup {"returned"} =>
         /\ Len(sleeps) = counter
         /\ attempts = counter + 1
    /\ spc = "sleep" =>
         /\ counter \in 1..5
         /\ Len(sleeps) = counter - 1
         /\ attempts = counter
    /\ BudgetExhausted =>
         /\ counter = 6
         /\ Len(sleeps) = 5
         /\ attempts = 6

C1_Witness == BudgetExhausted /\ sleeps = <<10, 20, 30, 40, 50>>

\* C2: in every state of an ssh_command call at most 6 attempts have been
\* started and the backoff sleeps add up to at most 150 seconds, whatever
\* the kinds of the failures.
C2_Bounded == attempts <= 6 /\ SumSeq(sleeps) <= 150

C2_Witness ==
    /\ attempts = 6
    /\ SumSeq(sleeps) = 150
    /\ first_e # e

\* How a call that has ended relates to its connects.
C3_Ended ==
    /\ spc = "returned" => connected
    /\ (spc = "panicked" /\ ~connected) =>
         /\ attempts = 6
         /\ reported = "Connection"
         /\ outcome = "panic"

\* C3: a call in which every TcpStream::connect fails makes exactly 6
\* attempts and ends by panicking with a Connection error: it never returns
\* an output, and from any point of such a call either a connect succeeds or
\* that panic is reached.
C3_NoListener ==
    /\ []C3_Ended
    /\ (spc \in {"connect", "sleep"} /\ ~connected)
          ~> (connected \/ (spc = "panicked" /\ attempts = 6 /\ reported = "Connection"))

C3_Witness == spc = "panicked" /\ ~connected /\ attempts = 6 /\ pc = "done"

\* C4: when the retry budget is exhausted the reported kind is that of the
\* 6th failed attempt, and failures of every kind count on the one counter.
C4_LastKind ==
    /\ (counter = 0) = (e = "none")
    /\ (counter = 0) = (first_e = "none")
    /\ counter = 1 => first_e = e
    /\ BudgetExhausted =>
         /\ counter = 6
         /\ reported = e

C4_Witness ==
    /\ BudgetExhausted
    /\ first_e = "Connection"
    /\ reported = "Command"

\* What a step taken after a successful exec may do.
PostExecStep ==
    spc \in PostExec =>
        /\ counter' = counter
        /\ sleeps' = sleeps
        /\ attempts' = attempts
        /\ spc' \in PostExec \cup {"returned"}
        /\ (spc \in {"close", "wait_close"} => s' = s)

\* C5: once exec has succeeded, a failure of read_to_string, close or
\* wait_close leaves the counter alone, causes no sleep and no retry, and
\* the call returns the output captured so far.
C5_Tolerated == [][PostExecStep]_vars

C5_Witness == spc = "returned" /\ ignored /\ s = <<"expected">> /\ counter > 0

\* C6: no command is executed on a session that is not authenticated, and a
\* session that userauth accepted but that is not authenticated aborts the
\* call at once: the attempt is not counted, nothing is slept, nothing is
\* retried.
C6_Verified ==
    /\ spc \in {"channel_session", "exec"} \cup PostExec \cup {"returned"} =>
         authenticated
    /\ (spc = "panicked" /\ reported = "NotAuthenticated") =>
         /\ ~authenticated
         /\ Len(sleeps) = counter
         /\ attempts = counter + 1
         /\ pc \in {"unwind", "done"}

C6_Witness == spc = "panicked" /\ reported = "NotAuthenticated" /\ counter = 2

\* C7: after a scenario has ended, on every exit path, no process it spawned
\* is still alive: each has been terminated and reaped.
C7_NoProcessLeft ==
    pc = "done" => \A h \in Handles : proc[h] \in {"none", "reaped"}

\* C8: kill-then-reap is called on every process handle a launch created,
\* before the scenario's workspace is torn down.
C8_TerminatedBeforeTeardown ==
    tmp_dir = "removed" =>
        \A h \in Handles : proc[h] # "none" => (h \in killed /\ proc[h] = "reaped")

\* C9: the workspace of a scenario is removed on every exit path: normal
\* completion, a failed aver!, and a panic of a probe or of a setup step.
C9_WorkspaceRemoved ==
    pc = "done" =>
        /\ tmp_dir # "live"
        /\ \A f \in files : ~StartsWith(f, Root)

C9_Witness ==
    /\ pc = "done"
    /\ BudgetExhausted
    /\ tmp_dir = "removed"
    /\ proc["child"] # "none"

\* C10: every file a scenario creates lies under its workspace root, so no
\* file it created exists after teardown, the pmem backing file and the
\* serial output file included.
C10_FilesUnderRoot ==
    /\ \A f \in files : StartsWith(f, Root)
    /\ pc = "done" => files = {}

\* The stages of a scenario apart from its probes and its side-car.
Pipeline(st) == SelectSeq(st, LAMBDA x : x \notin {"probe", "launch_sidecar"})
Completed == pc = "done" /\ outcome \in {"passed", "failed"}

\* C11: every scenario that runs to its end went through the same pipeline
\* in order: launch the hypervisor, settle, probes, shutdown probe, settle
\* again, kill and reap the process(es), tear the workspace down; none skips
\* or reorders a stage.
C11_FixedPipeline ==
    Completed =>
        LET st == Pipeline(stages) IN
        /\ Len(st) >= 7
        /\ SubSeq(st, 1, 6) = <<"launch", "settle", "shutdown", "settle",
                                "kill", "reap">>
        /\ st[Len(st)] = "teardown"

\* C12: a kill is never sent before the "sudo reboot" probe has returned.
C12_KillAfterReboot ==
    \A i \in 1..Len(stages) :
        stages[i] = "kill" => \E j \in 1..(i - 1) : stages[j] = "shutdown"

C12_Witness == \E i \in 1..Len(stages) : stages[i] = "kill"

\* C13: kill-then-wait on a handle that has already exited, or was already
\* killed and reaped, raises no error, leaves the handle reaped, changes no
\* other handle, and doing it again changes nothing.
C13_Idempotent ==
    /\ "child" \in killed => outcome # "panic"
    /\ \A h \in Handles :
         proc[h] \in {"zombie", "reaped"} =>
             LET q == Terminate(proc, h) IN
             /\ q[h] = "reaped"
             /\ \A g \in Handles \ {h} : q[g] = proc[g]
             /\ Terminate(q, h) = q

C13_Witness ==
    /\ "child" \in killed
    /\ proc["child"] = "reaped"
    /\ pc = "end"

\* C14: once Guest::new has returned, disks holds the system disk, the
\* configuration disk and the raw disk at indices 0, 1 and 2, and nothing
\* that runs later changes it.
C14_DisksFixed ==
    (\/ disks # <<>>
     \/ pc \notin {"Guest_new", "prepare_cloudinit", "mkdosfs", "mcopy",
                   "copy_disks", "unwind", "done"}) =>
        /\ Len(disks) = 3
        /\ disks[1] = osdisk_path
        /\ disks[2] = cloudinit_file_path
        /\ disks[3] = osdisk_raw_path

C14_Witness == pc = "end" /\ Len(disks) = 3

\* C15: whatever the template and the host, guest and MAC addresses are, the
\* payload prepare_cloudinit writes contains none of the three placeholder
\* tokens.
C15_NoTokenSurvives ==
    rpc = "written" =>
        /\ ~Contains(user_data_string, HostToken)
        /\ ~Contains(user_data_string, GuestToken)
        /\ ~Contains(user_data_string, MacToken)

\* C16: when mkdosfs or mcopy fails, whether it cannot be started or runs and
\* reports failure, no hypervisor process is launched.
C16_ToolFailureFatal == tool_failed => proc["child"] = "none"

\* C17: main exits with status 0 only if VmConfig::parse and boot_kernel both
\* succeeded; on every configuration failure, a missing kernel argument
\* included, and on a boot failure its last output is a diagnostic on
\* standard output and the status is not 0; boot_kernel is not called after
\* a configuration failure.
C17_ExitStatus ==
    mpc = "exited" =>
        /\ exit_code = 0 => (vm_config = "ok" /\ boot = "ok")
        /\ ~(vm_config = "ok" /\ boot = "ok") =>
               /\ exit_code # 0
               /\ stdout # <<>>
               /\ stdout[Len(stdout)] \in {"Failed parsing parameters",
                                           "Guest boot failed",
                                           "Missing argument: kernel"}
        /\ vm_config # "ok" => boot = "not_called"

\* The steps of one attempt, in the order of the closure's statements.
StepOrder == <<"connect", "handshake", "userauth", "assert",
               "channel_session", "exec", "read_to_string", "close",
               "wait_close">>
StepIndex(x) == CHOOSE i \in 1..Len(StepOrder) : StepOrder[i] = x

AttemptStep ==
    /\ (spc \in InAttempt /\ spc' \in InAttempt /\ spc' # spc) =>
           /\ StepIndex(spc') = StepIndex(spc) + 1
           /\ attempts' = attempts
    /\ (spc = "sleep" /\ spc' # spc) =>
           /\ spc' = "connect"
           /\ attempts' = attempts + 1
    /\ (spc' = "connect" /\ spc # "connect") =>
           /\ tcp' = 0
           /\ sess' = 0
           /\ ~authenticated'
    /\ (spc' \in InAttempt /\ StepIndex(spc') >= 2) => tcp' = attempts'
    /\ (spc' \in InAttempt /\ StepIndex(spc') >= 3) => sess' = attempts'
    /\ spc' = "exec" => authenticated'

\* C18: within an attempt the steps follow connect, handshake, authenticate,
\* open channel, execute; a retry starts at connect with no connection and no
\* session; the connection and session in use are those the current attempt
\* made; exec is reached only by an authenticated attempt.
C18_AttemptOrder == [][AttemptStep]_vars

C18_Witness == spc = "exec" /\ attempts = 3 /\ tcp = 3 /\ sess = 3

ClassifiedStep ==
    counter' = counter + 1 =>
        e' = CASE spc \in {"connect", "handshake"}      -> "Connection"
               [] spc = "userauth"                      -> "Authentication"
               [] spc \in {"channel_session", "exec"}   -> "Command"
               [] OTHER                                 -> "unclassified"

\* C19: every failed attempt gets the kind of the step that failed: connect
\* and handshake give Connection, userauth gives Authentication,
\* channel_session and exec give Command.
C19_Classified == [][ClassifiedStep]_vars

C19_Witness ==
    /\ spc = "sleep"
    /\ counter = 3
    /\ first_e = "Connection"
    /\ e = "Command"

AbortedStep ==
    (BudgetExhausted \/ BudgetExhausted') =>
        /\ pc' \in {"unwind", "done"}
        /\ BudgetExhausted =>
               /\ stages' \in {stages, Append(stages, "teardown")}
               /\ UNCHANGED <<probe, killed, sshVars>>
               /\ \A h \in Handles : proc'[h] = "reaped" => proc[h] = "reaped"

\* C20: once a probe has exhausted its retries the scenario only unwinds: no
\* further probe, shutdown probe, settle delay, kill or reap is executed.
C20_AbortIsFinal == [][AbortedStep]_vars

C20_Witness ==
    /\ BudgetExhausted
    /\ pc = "done"
    /\ probe = 2
    /\ proc["child"] # "none"

\* C21: in test_virtio_fs the daemon is launched before the hypervisor, with
\* a socket path under the workspace root; the hypervisor's launch does not
\* wait for the socket (the state C21_Race is reachable).
C21_SidecarFirst ==
    (test = "test_virtio_fs" /\ proc["child"] # "none") =>
        /\ proc["daemon_child"] # "none"
        /\ StartsWith(virtiofsd_socket_path, Root)
        /\ \E i, j \in 1..Len(stages) :
               /\ i < j
               /\ stages[i] = "launch_sidecar"
               /\ stages[j] = "launch"

C21_Race ==
    /\ test = "test_virtio_fs"
    /\ proc["child"] = "running"
    /\ proc["daemon_child"] = "running"
    /\ tmp_dir = "live"
    /\ virtiofsd_socket_path \notin files

WrittenOnce ==
    /\ s' # s =>
           \/ s' = <<>> /\ pc = "probe"
           \/ s = <<>> /\ spc = "read_to_string"
    /\ s' # <<>> => spc' \in {"close", "wait_close", "returned"}

\* C22: the buffer s of a call is written by at most one attempt, the one
\* that succeeds: it is empty until that attempt reads, and no attempt
\* follows a read.
C22_SingleWriter == [][WrittenOnce]_vars

C22_Witness == spc = "returned" /\ attempts = 3 /\ s = <<"expected">>

FreshBudget ==
    /\ (pc = "probe" /\ pc' = "ssh_command") =>
           /\ counter' = 0
           /\ attempts' = 1
           /\ sleeps' = <<>>
    /\ spc' \in InAttempt =>
           /\ attempts' = counter' + 1
           /\ Len(sleeps') = counter'
           /\ \A i \in 1..Len(sleeps') : sleeps'[i] = BackoffUnit * i

\* C23: every ssh_command call starts with counter 0, and whatever earlier
\* calls absorbed, the attempts and backoff of a call depend only on its own
\* failures.
C23_PerCallBudget == [][FreshBudget]_vars

C23_Witness ==
    /\ earlier_failures
    /\ spc = "sleep"
    /\ counter = MaxAttempts - 1

\* C24: a call that succeeds on its k-th attempt has slept
\* 10*(1+...+(k-1)) seconds in k-1 sleeps, none of them after the success.
C24_TotalSleep ==
    spc = "returned" =>
        /\ attempts \in 1..MaxAttempts
        /\ Len(sleeps) = attempts - 1
        /\ SumSeq(sleeps) = BackoffUnit * (((attempts - 1) * attempts) \div 2)

C24_Witness == spc = "returned" /\ attempts = 4 /\ SumSeq(sleeps) = 60

\* What the template becomes when every occurrence of a placeholder in it is
\* turned into its own value and nothing that was inserted is looked at again.
RECURSIVE Substituted(_, _, _, _)
Substituted(str, h, g, m) ==
    IF str = <<>>
    THEN <<>>
    ELSE IF StartsWith(str, HostToken)
         THEN h \o Substituted(SubSeq(str, Len(HostToken) + 1, Len(str)), h, g, m)
         ELSE IF StartsWith(str, GuestToken)
              THEN g \o Substituted(SubSeq(str, Len(GuestToken) + 1, Len(str)),
                                    h, g, m)
              ELSE IF StartsWith(str, MacToken)
                   THEN m \o Substituted(SubSeq(str, Len(MacToken) + 1, Len(str)),
                                         h, g, m)
                   ELSE <<str[1]>> \o Substituted(Tail(str), h, g, m)

C26_Terminates == (\E i \in 1..Len(stages) : stages[i] = "shutdown") ~> pc = "done"

====
